---- MODULE Spec2Model ----
(***************************************************************************)
(* Frame sampling and mask pairing of core/dataset.py: the index sampler   *)
(* (get_ref_index / get_frame_index), the three dataset item loaders       *)
(* (MUSICDataset, AVEDataset, Dataset) and the process-wide random source  *)
(* the sampler draws from.                                                 *)
(*                                                                         *)
(* Python integers are kept 0-based as in the source; a Python list is a   *)
(* TLA+ sequence, so Python's lst[i] is lst[i + 1] here.                   *)
(***************************************************************************)
EXTENDS Integers, Sequences, FiniteSets, TLC

\* longest video (number of frames) a behaviour considers
MaxLen == 3

\* the 0.5 of `random.uniform(0, 1) > 0.5`, in hundredths
Half == 50

\* values of random.uniform(0, 1), in hundredths: below, at and above 0.5
Uniforms == {25, 50, 75}

\* raw words a randbelow(n) call may be served from (n <= MaxLen + 1)
RawWords == 0..MaxLen

\* configured frame geometries, as <<h, w>>
Geometries == {<<256, 256>>, <<240, 432>>}

\* the videos of the data set, in the order of video_names / video_ids
VideoNames == <<"v0", "v1">>

Workers == {"w1", "w2"}

VARIABLES
    sample_length,  \* args["sample_length"]: ref_frames / ref_count / sample_length
    h,              \* args["h"]
    w,              \* args["w"]
    video_dict,     \* video name -> number of frames
    pc,             \* "idle" or "returned": whether a call's outcome awaits its caller
    ret,            \* outcome of the last call
    rng,            \* state of the module-level generator of `random`
    wpc,            \* per worker: position inside get_ref_index
    wargs,          \* per worker: (length, sample_length) of its call
    wloc,           \* per worker: locals of random.sample (pool, result, i)
    wout,           \* per worker: what its call returned or raised
    wsnap           \* per worker: rng as it was when the call started

dvars == <<sample_length, h, w, video_dict, pc, ret>>
wvars == <<rng, wpc, wargs, wloc, wout, wsnap>>
vars == <<sample_length, h, w, video_dict, pc, ret, rng, wpc, wargs, wloc, wout, wsnap>>

(***************************************************************************)
(* Python built-ins and the `random` calls the sampler makes               *)
(***************************************************************************)

\* list(range(n)): empty when n <= 0
range(n) == [i \in 1..(IF n > 0 THEN n ELSE 0) |-> i - 1]

Ok(v) == [exc |-> "None", val |-> v]
Raise(e) == [exc |-> e, val |-> <<>>]

\* insert x into the ascending sequence s
RECURSIVE insert(_, _)
insert(x, s) ==
    IF s = <<>> THEN <<x>>
    ELSE IF x <= Head(s) THEN <<x>> \o s
    ELSE <<Head(s)>> \o insert(x, Tail(s))

\* list.sort()
RECURSIVE sort(_)
sort(s) == IF s = <<>> THEN <<>> ELSE insert(Head(s), sort(Tail(s)))

\* random._randbelow(n) served from one raw word
randbelow(n, raw) == raw % n

\* one round of random.sample's selection loop:
\*   j = randbelow(n - i); result[i] = pool[j]; pool[j] = pool[n - i - 1]
sample_step(loc, n, raw) ==
    LET j == randbelow(n - loc.i, raw)
    IN [pool   |-> [loc.pool EXCEPT ![j + 1] = loc.pool[n - loc.i]],
        result |-> Append(loc.result, loc.pool[j + 1]),
        i      |-> loc.i + 1]

RECURSIVE sample_loop(_, _, _, _)
sample_loop(loc, n, k, draws) ==
    IF loc.i >= k THEN loc.result
    ELSE sample_loop(sample_step(loc, n, Head(draws)), n, k, Tail(draws))

\* random.sample(population, k): ValueError unless 0 <= k <= len(population)
sample(population, k, draws) ==
    LET n == Len(population)
    IN IF ~(0 <= k /\ k <= n) THEN Raise("ValueError")
       ELSE Ok(sample_loop([pool |-> population, result |-> <<>>, i |-> 0], n, k, draws))

\* randint with its range one too wide (a faulty variant, for comparison)
randint_wide(a, b, draws) ==
    IF b + 1 - a <= 0 THEN Raise("ValueError")
    ELSE Ok(a + randbelow(b + 2 - a, Head(draws)))

\* randint without the check of an empty range (a faulty variant, for comparison)
randint_nocheck(a, b, draws) ==
    IF b + 1 - a <= 0 THEN Ok(a)
    ELSE Ok(a + randbelow(b + 1 - a, Head(draws)))

\* random.randint(a, b) = randrange(a, b + 1): ValueError on an empty range
randint(a, b, draws) ==
    IF b + 1 - a <= 0 THEN Raise("ValueError")
    ELSE Ok(a + randbelow(b + 1 - a, Head(draws)))

\* [pivot + i for i in range(count)]
window(pivot, count) == [i \in 1..(IF count > 0 THEN count ELSE 0) |-> pivot + i - 1]

\* how many raw words a sampler call consumes after its uniform draw
ndraws(length, count, u) ==
    IF u > Half
    THEN (IF 0 <= count /\ count <= length THEN count ELSE 0)
    ELSE (IF length - count >= 0 THEN 1 ELSE 0)

DrawsFor(length, count, u) == [1..ndraws(length, count, u) -> RawWords]

(***************************************************************************)
(* The index samplers: u is the value of random.uniform(0, 1), draws the   *)
(* raw words the following random calls are served from                    *)
(***************************************************************************)

\* get_ref_index without ref_index.sort() (a faulty variant, for comparison)
get_ref_index_nosort(length, count, u, draws) ==
    IF u > Half
    THEN sample(range(length), count, draws)
    ELSE LET p == randint(0, length - count, draws)
         IN IF p.exc # "None" THEN p ELSE Ok(window(p.val, count))

\* module-level get_ref_index(length, sample_length)
get_ref_index(length, count, u, draws) ==
    IF u > Half
    THEN LET s == sample(range(length), count, draws)
         IN IF s.exc # "None" THEN s ELSE Ok(sort(s.val))
    ELSE LET p == randint(0, length - count, draws)
         IN IF p.exc # "None" THEN p ELSE Ok(window(p.val, count))

\* MUSICDataset.get_frame_index(length, ref_count)
get_frame_index(length, ref_count, u, draws) ==
    IF u > Half
    THEN LET s == sample(range(length), ref_count, draws)
         IN IF s.exc # "None" THEN s ELSE Ok(sort(s.val))
    ELSE LET p == randint(0, length - ref_count, draws)
         IN IF p.exc # "None" THEN p ELSE Ok(window(p.val, ref_count))

\* AVEDataset.get_ref_index(length, ref_count)
AVE_get_ref_index(length, ref_count, u, draws) ==
    IF u > Half
    THEN LET s == sample(range(length), ref_count, draws)
         IN IF s.exc # "None" THEN s ELSE Ok(sort(s.val))
    ELSE LET p == randint(0, length - ref_count, draws)
         IN IF p.exc # "None" THEN p ELSE Ok(window(p.val, ref_count))

Samplers == {"get_ref_index", "get_frame_index", "AVE_get_ref_index"}

call_sampler(fn, length, count, u, draws) ==
    CASE fn = "get_ref_index"     -> get_ref_index(length, count, u, draws)
      [] fn = "get_frame_index"   -> get_frame_index(length, count, u, draws)
      [] fn = "AVE_get_ref_index" -> AVE_get_ref_index(length, count, u, draws)

(***************************************************************************)
(* Images and masks.  A frame is where it was read from and its PIL size;  *)
(* a mask is who made it, its resolution and its place in the made         *)
(* sequence.                                                               *)
(***************************************************************************)

Frame(video, file, width, height) ==
    [video |-> video, file |-> file, width |-> width, height |-> height, hflip |-> FALSE]

Mask(kind, src, step, height, width) ==
    [kind |-> kind, src |-> src, step |-> step, height |-> height, width |-> width,
     hflip |-> FALSE, vflip |-> FALSE]

hflipper(img, on) == IF on THEN [img EXCEPT !.hflip = ~img.hflip] ELSE img
vflipper(img, on) == IF on THEN [img EXCEPT !.vflip = ~img.vflip] ELSE img

\* core.utils.create_fixed_rectangular_mask(count, height, width, seed)
create_fixed_rectangular_mask(count, height, width, seed) ==
    [t \in 1..count |-> Mask("fixed", seed, t - 1, height, width)]

\* core.utils.create_random_shape_with_random_motion(video_length, imageHeight, imageWidth);
\* shape stands for the random shape and motion drawn for this sequence
create_random_shape_with_random_motion(video_length, imageHeight, imageWidth, shape) ==
    [t \in 1..video_length |-> Mask("moving", shape, t - 1, imageHeight, imageWidth)]

Shapes == {"s1", "s2"}

\* sizes (width, height) the image files on disk may have
NativeSizes == {<<g[2], g[1]>> : g \in Geometries}

\* numbers random.randrange(0, 12000) may give: both ends of the range
MaskFiles == {0, 12000 - 1}

video_names == VideoNames

\* the split every data set is constructed with by default
split == "train"
InRange(index) == 0 <= index /\ index < Len(video_names)

NoRet ==
    [op |-> "none", index |-> 0, sampled |-> FALSE, length |-> 0, count |-> 0, u |-> 0,
     exc |-> "None", ref_index |-> <<>>, frames |-> <<>>, masks |-> <<>>,
     all_masks |-> <<>>, generated |-> <<>>, loads |-> <<>>, first_exc |-> "None"]

(***************************************************************************)
(* A direct call of one of the samplers                                    *)
(***************************************************************************)

CallSampler(fn, length, count) ==
    /\ pc = "idle"
    /\ \E u \in Uniforms : \E draws \in DrawsFor(length, count, u) :
         LET r == call_sampler(fn, length, count, u, draws)
         IN ret' = [NoRet EXCEPT !.op = fn, !.sampled = TRUE, !.length = length,
                                 !.count = count, !.u = u, !.exc = r.exc,
                                 !.ref_index = r.val]
    /\ pc' = "returned"
    /\ UNCHANGED <<sample_length, h, w, video_dict>>
    /\ UNCHANGED wvars

(***************************************************************************)
(* MUSICDataset.__getitem__                                                *)
(***************************************************************************)

MUSIC_item(index, u, draws, native, flip) ==
    IF ~InRange(index) THEN [NoRet EXCEPT !.exc = "IndexError"]
    ELSE
    LET video_id == video_names[index + 1]
        length == video_dict[video_id]
        sampled_idxs == get_frame_index(length, sample_length, u, draws)
        masks == create_fixed_rectangular_mask(5, 256, 256, 42)
        image_shape == <<w, h>>
        frames == [k \in 1..Len(sampled_idxs.val) |->
                      hflipper(Frame(video_id, sampled_idxs.val[k] + 1, native[1], native[2]), flip)]
        base == [NoRet EXCEPT !.sampled = TRUE, !.length = length, !.count = sample_length,
                              !.u = u, !.ref_index = sampled_idxs.val]
    IN IF sampled_idxs.exc # "None" THEN [base EXCEPT !.exc = sampled_idxs.exc]
       ELSE IF sampled_idxs.val # <<>> /\ native # image_shape
       THEN [base EXCEPT !.exc = "AssertionError"]
       ELSE [base EXCEPT !.frames = frames, !.masks = masks, !.all_masks = masks]

MUSIC_getitem(index) ==
    /\ pc = "idle"
    /\ \E u \in Uniforms, native \in NativeSizes, flip \in BOOLEAN :
         LET length == IF InRange(index) THEN video_dict[video_names[index + 1]] ELSE 0
         IN \E draws \in DrawsFor(length, sample_length, u) :
              ret' = [MUSIC_item(index, u, draws, native, flip) EXCEPT
                         !.op = "MUSIC_getitem", !.index = index]
    /\ pc' = "returned"
    /\ UNCHANGED <<sample_length, h, w, video_dict>>
    /\ UNCHANGED wvars

(***************************************************************************)
(* AVEDataset.__getitem__                                                  *)
(***************************************************************************)

\* all_masks left as generated (a faulty variant, for comparison)
AVE_all_masks_generated(generated, mask, length) == generated

\* all_masks as it stands when the frame loop reads it: all_masks = [mask] * len(all_frames)
AVE_all_masks(generated, mask, length) == [t \in 1..length |-> mask]

AVE_item(index, shape, file, mh, mv, u, draws, native, flip) ==
    IF ~InRange(index) THEN [NoRet EXCEPT !.exc = "IndexError"]
    ELSE
    LET video_id == video_names[index + 1]
        length == video_dict[video_id]
        image_height == h
        image_width == w
        image_shape == <<w, h>>
        generated == create_random_shape_with_random_motion(length, image_height, image_width, shape)
        \* Image.open(mask_path).resize((image_height, image_width)): PIL takes (width, height)
        opened == [Mask("file", file, 0, 0, 0) EXCEPT !.width = image_height, !.height = image_width]
        mask == vflipper(hflipper(opened, mh), mv)
        all_masks == AVE_all_masks(generated, mask, length)
        ref_index == AVE_get_ref_index(length, sample_length, u, draws)
        \* if image.size != self.image_shape: image = image.resize(self.image_shape)
        size == IF native # image_shape THEN image_shape ELSE native
        frames == [k \in 1..Len(ref_index.val) |->
                      hflipper(Frame(video_id, ref_index.val[k], size[1], size[2]),
                               split = "train" /\ flip)]
        masks == [k \in 1..Len(ref_index.val) |-> all_masks[ref_index.val[k] + 1]]
        base == [NoRet EXCEPT !.sampled = TRUE, !.length = length, !.count = sample_length,
                              !.u = u, !.ref_index = ref_index.val,
                              !.generated = generated, !.all_masks = all_masks]
    IN IF ref_index.exc # "None" THEN [base EXCEPT !.exc = ref_index.exc]
       ELSE [base EXCEPT !.frames = frames, !.masks = masks]

AVE_getitem(index) ==
    /\ pc = "idle"
    /\ \E shape \in Shapes, file \in MaskFiles, mh \in BOOLEAN, mv \in BOOLEAN,
          u \in Uniforms, native \in NativeSizes, flip \in BOOLEAN :
         LET length == IF InRange(index) THEN video_dict[video_names[index + 1]] ELSE 0
         IN \E draws \in DrawsFor(length, sample_length, u) :
              ret' = [AVE_item(index, shape, file, mh, mv, u, draws, native, flip) EXCEPT
                         !.op = "AVE_getitem", !.index = index]
    /\ pc' = "returned"
    /\ UNCHANGED <<sample_length, h, w, video_dict>>
    /\ UNCHANGED wvars

(***************************************************************************)
(* Dataset.load_item and Dataset.__getitem__                               *)
(***************************************************************************)

\* the k-th mask for the k-th sampled frame (a faulty variant, for comparison)
select_masks_by_position(all_masks, ref_index) ==
    [k \in 1..Len(ref_index) |-> all_masks[k]]

\* the loop of load_item: masks.append(all_masks[idx]) for idx in ref_index
select_masks(all_masks, ref_index) ==
    [k \in 1..Len(ref_index) |-> all_masks[ref_index[k] + 1]]

\* io_ok: whether ZipReader.imread could read the frames it was asked for
load_item(index, shape, u, draws, io_ok, flip) ==
    IF ~InRange(index) THEN [NoRet EXCEPT !.exc = "IndexError"]
    ELSE
    LET video_name == video_names[index + 1]
        length == video_dict[video_name]
        all_masks == create_random_shape_with_random_motion(length, h, w, shape)
        ref_index == get_ref_index(length, sample_length, u, draws)
        \* img = img.resize(self.size), self.size = (w, h)
        frames == [k \in 1..Len(ref_index.val) |->
                      hflipper(Frame(video_name, ref_index.val[k], w, h),
                               split = "train" /\ flip)]
        masks == select_masks(all_masks, ref_index.val)
        base == [NoRet EXCEPT !.sampled = TRUE, !.length = length, !.count = sample_length,
                              !.u = u, !.ref_index = ref_index.val,
                              !.generated = all_masks, !.all_masks = all_masks]
    IN IF ref_index.exc # "None" THEN [base EXCEPT !.exc = ref_index.exc]
       ELSE IF ref_index.val # <<>> /\ ~io_ok THEN [base EXCEPT !.exc = "IOError"]
       ELSE [base EXCEPT !.frames = frames, !.masks = masks]

LengthAt(index) == IF InRange(index) THEN video_dict[video_names[index + 1]] ELSE 0

\* every outcome load_item(index) can have, over its random draws and its reads
LoadOutcomes(index) ==
    UNION {{load_item(index, shape, u, draws, io_ok, flip) :
                draws \in DrawsFor(LengthAt(index), sample_length, u)} :
           shape \in Shapes, u \in Uniforms, io_ok \in BOOLEAN, flip \in BOOLEAN}

\* an except branch that goes to load_item(0) whatever the index (a faulty variant,
\* for comparison)
Dataset_fallback_retry(index, first_exc, second) ==
    [second EXCEPT !.loads = <<index, 0>>, !.first_exc = first_exc]

\* the except branch: the message is formatted from video_names[index], then load_item(0)
Dataset_fallback(index, first_exc, second) ==
    IF ~InRange(index)
    THEN [NoRet EXCEPT !.exc = "IndexError", !.loads = <<index>>, !.first_exc = first_exc]
    ELSE [second EXCEPT !.loads = <<index, 0>>, !.first_exc = first_exc]

Dataset_getitem(index) ==
    /\ pc = "idle"
    /\ LET firsts == LoadOutcomes(index)
       IN \/ \E first \in {o \in firsts : o.exc = "None"} :
               ret' = [first EXCEPT !.op = "Dataset_getitem", !.index = index,
                                    !.loads = <<index>>]
          \/ \E first_exc \in {o.exc : o \in firsts} \ {"None"} :
             \E second \in LoadOutcomes(0) :
               ret' = [Dataset_fallback(index, first_exc, second) EXCEPT
                          !.op = "Dataset_getitem", !.index = index]
    /\ pc' = "returned"
    /\ UNCHANGED <<sample_length, h, w, video_dict>>
    /\ UNCHANGED wvars

\* the caller takes the outcome
Consume ==
    /\ pc = "returned"
    /\ pc' = "idle"
    /\ ret' = NoRet
    /\ UNCHANGED <<sample_length, h, w, video_dict>>
    /\ UNCHANGED wvars

(***************************************************************************)
(* The data sets as constructed, and their requests                        *)
(***************************************************************************)

WorkersIdle ==
    /\ rng = 0
    /\ wpc = [x \in Workers |-> "idle"]
    /\ wargs = [x \in Workers |-> <<0, 0>>]
    /\ wloc = [x \in Workers |-> [pool |-> <<>>, result |-> <<>>, i |-> 0]]
    /\ wout = [x \in Workers |-> Raise("None")]
    /\ wsnap = [x \in Workers |-> 0]

Init ==
    /\ sample_length \in 1..MaxLen
    /\ \E g \in Geometries : h = g[1] /\ w = g[2]
    /\ video_dict \in [{video_names[i] : i \in 1..Len(video_names)} -> 1..MaxLen]
    /\ pc = "idle"
    /\ ret = NoRet
    /\ WorkersIdle

Next ==
    \/ \E fn \in Samplers, length \in 0..MaxLen, count \in (0 - 1)..(MaxLen + 1) :
         CallSampler(fn, length, count)
    \/ \E index \in 0..Len(video_names) : MUSIC_getitem(index)
    \/ \E index \in 0..Len(video_names) : AVE_getitem(index)
    \/ \E index \in 0..Len(video_names) : Dataset_getitem(index)
    \/ Consume

Spec == Init /\ [][Next]_vars

(***************************************************************************)
(* Two loader threads of one process calling get_ref_index.  `random` is   *)
(* imported once per process and its functions draw from one module-level  *)
(* generator: every draw reads rng and advances it.  The generator is      *)
(* stood for by a small full-period congruential generator.                *)
(***************************************************************************)

Seeds == 0..7

\* the generator's next state
Advance(s) == (5 * s + 3) % 8

\* random.uniform(0, 1) served from state s, in hundredths
uniform_of(s) == (s * 100) \div 8

\* the n raw words the generator gives from state s on
RECURSIVE Stream(_, _)
Stream(s, n) == IF n <= 0 THEN <<>> ELSE <<s>> \o Stream(Advance(s), n - 1)

\* a thread enters get_ref_index(length, count)
W_call(x, length, count) ==
    /\ wpc[x] = "idle"
    /\ wargs' = [wargs EXCEPT ![x] = <<length, count>>]
    /\ wsnap' = [wsnap EXCEPT ![x] = rng]
    /\ wpc' = [wpc EXCEPT ![x] = "uniform"]
    /\ UNCHANGED <<rng, wloc, wout>>
    /\ UNCHANGED dvars

\* `if random.uniform(0, 1) > 0.5:`, and random.sample's check of its arguments
W_uniform(x) ==
    /\ wpc[x] = "uniform"
    /\ rng' = Advance(rng)
    /\ LET length == wargs[x][1]
           count == wargs[x][2]
       IN IF uniform_of(rng) > Half
          THEN IF ~(0 <= count /\ count <= length)
               THEN /\ wout' = [wout EXCEPT ![x] = Raise("ValueError")]
                    /\ wpc' = [wpc EXCEPT ![x] = "done"]
                    /\ UNCHANGED wloc
               ELSE /\ wloc' = [wloc EXCEPT ![x] =
                                   [pool |-> range(length), result |-> <<>>, i |-> 0]]
                    /\ wpc' = [wpc EXCEPT ![x] = IF count = 0 THEN "sort" ELSE "sample"]
                    /\ UNCHANGED wout
          ELSE /\ wpc' = [wpc EXCEPT ![x] = "randint"]
               /\ UNCHANGED <<wloc, wout>>
    /\ UNCHANGED <<wargs, wsnap>>
    /\ UNCHANGED dvars

\* one round of random.sample's loop
W_sample(x) ==
    /\ wpc[x] = "sample"
    /\ rng' = Advance(rng)
    /\ LET loc == sample_step(wloc[x], wargs[x][1], rng)
       IN /\ wloc' = [wloc EXCEPT ![x] = loc]
          /\ wpc' = [wpc EXCEPT ![x] = IF loc.i >= wargs[x][2] THEN "sort" ELSE "sample"]
    /\ UNCHANGED <<wargs, wout, wsnap>>
    /\ UNCHANGED dvars

\* ref_index.sort(); return ref_index
W_sort(x) ==
    /\ wpc[x] = "sort"
    /\ wout' = [wout EXCEPT ![x] = Ok(sort(wloc[x].result))]
    /\ wpc' = [wpc EXCEPT ![x] = "done"]
    /\ UNCHANGED <<rng, wargs, wloc, wsnap>>
    /\ UNCHANGED dvars

\* pivot = random.randint(0, length - sample_length); the window; return
W_randint(x) ==
    /\ wpc[x] = "randint"
    /\ LET p == randint(0, wargs[x][1] - wargs[x][2], <<rng>>)
       IN /\ rng' = IF p.exc = "None" THEN Advance(rng) ELSE rng
          /\ wout' = [wout EXCEPT ![x] =
                         IF p.exc # "None" THEN p ELSE Ok(window(p.val, wargs[x][2]))]
    /\ wpc' = [wpc EXCEPT ![x] = "done"]
    /\ UNCHANGED <<wargs, wloc, wsnap>>
    /\ UNCHANGED dvars

InitWorkers ==
    /\ sample_length = 1
    /\ h = 256 /\ w = 256
    /\ video_dict = [v \in {video_names[i] : i \in 1..Len(video_names)} |-> 1]
    /\ pc = "idle"
    /\ ret = NoRet
    /\ rng \in Seeds
    /\ wpc = [x \in Workers |-> "idle"]
    /\ wargs = [x \in Workers |-> <<0, 0>>]
    /\ wloc = [x \in Workers |-> [pool |-> <<>>, result |-> <<>>, i |-> 0]]
    /\ wout = [x \in Workers |-> Raise("None")]
    /\ wsnap = [x \in Workers |-> 0]

NextWorkers ==
    \/ \E x \in Workers, length \in 1..MaxLen, count \in 1..MaxLen : W_call(x, length, count)
    \/ \E x \in Workers : W_uniform(x)
    \/ \E x \in Workers : W_sample(x)
    \/ \E x \in Workers : W_sort(x)
    \/ \E x \in Workers : W_randint(x)

SpecWorkers == InitWorkers /\ [][NextWorkers]_vars

\* what a call gives when no other draw falls between its own: the sampler run on the
\* generator's stream from the state the call found
alone(x) ==
    LET length == wargs[x][1]
        count == wargs[x][2]
        u == uniform_of(wsnap[x])
    IN get_ref_index(length, count, u, Stream(Advance(wsnap[x]), ndraws(length, count, u)))

(***************************************************************************)
(* Properties                                                              *)
(***************************************************************************)

Returned == pc = "returned"
GetItems == {"MUSIC_getitem", "AVE_getitem", "Dataset_getitem"}
ValidArgs == ret.length >= 1 /\ 1 <= ret.count /\ ret.count <= ret.length
StrictlyIncreasing(s) == \A i \in 1..(Len(s) - 1) : s[i] < s[i + 1]

\* C1: for video_length >= 1 and 1 <= sample_count <= video_length, in either mode and
\* for any draws, every sampler (called directly or by a data set) returns exactly
\* sample_count integers, strictly increasing, each in [0, video_length).
C1_SampleWellFormed ==
    (Returned /\ ret.sampled /\ ValidArgs) =>
        /\ ret.exc # "ValueError"
        /\ Len(ret.ref_index) = ret.count
        /\ StrictlyIncreasing(ret.ref_index)
        /\ \A i \in 1..Len(ret.ref_index) :
             0 <= ret.ref_index[i] /\ ret.ref_index[i] < ret.length

\* a scattered, non-contiguous sample of 2 of 3 frames
C1_Witness ==
    /\ Returned /\ ret.op = "get_ref_index" /\ ret.u > Half
    /\ ret.length = 3 /\ ret.count = 2 /\ ret.ref_index = <<0, 2>>

\* C2: in the contiguous branch with 1 <= sample_count <= video_length the output is
\* [pivot, ..., pivot + sample_count - 1] for a pivot in 0..video_length - sample_count;
\* with sample_count = video_length it is [0, ..., video_length - 1].
C2_ContiguousWindow ==
    (Returned /\ ret.sampled /\ ValidArgs /\ ret.u <= Half) =>
        /\ \E pivot \in 0..(ret.length - ret.count) :
             ret.ref_index = window(pivot, ret.count)
        /\ ret.count = ret.length => ret.ref_index = range(ret.length)

\* the pivot at the upper end of its range
C2_Witness ==
    /\ Returned /\ ret.op = "get_ref_index" /\ ret.u <= Half
    /\ ret.length = 3 /\ ret.count = 2 /\ ret.ref_index = <<1, 2>>

\* C3: with sample_count > video_length a sampler call, in either mode, raises (Python's
\* ValueError, from random.sample or random.randint) and yields no index list.
C3_TooManyRaises ==
    (Returned /\ ret.sampled /\ ret.count > ret.length) =>
        /\ ret.exc = "ValueError"
        /\ ret.ref_index = <<>> /\ ret.frames = <<>> /\ ret.masks = <<>>

\* the contiguous branch asked for more frames than the video has
C3_Witness ==
    /\ Returned /\ ret.op = "get_ref_index" /\ ret.u <= Half
    /\ ret.length = 2 /\ ret.count = 3 /\ ret.exc = "ValueError"

\* C4: with sample_count <= 0 a sampler call, in either mode, raises and never returns
\* normally.
C4_NonPositiveRaises ==
    (Returned /\ ret.op \in Samplers /\ ret.count <= 0) => ret.exc # "None"

\* C5: for every data set and every successful item request the mask sequence has
\* sample_length masks, as many as there are frames.
C5_MaskCount ==
    (Returned /\ ret.op \in GetItems /\ ret.exc = "None") =>
        /\ Len(ret.masks) = sample_length
        /\ Len(ret.masks) = Len(ret.frames)

\* C6: for every data set and every configured (h, w) every returned mask is h high and
\* w wide.
C6_MaskGeometry ==
    (Returned /\ ret.op \in GetItems /\ ret.exc = "None") =>
        \A k \in 1..Len(ret.masks) : ret.masks[k].height = h /\ ret.masks[k].width = w

\* C7: whatever the interleaving of two threads' calls, a call returns what it would
\* have returned had no other call drawn from the random source meanwhile.
C7_CallsIndependent ==
    \A x \in Workers : wpc[x] = "done" => wout[x] = alone(x)

C9_AlwaysFallsBack ==
    (Returned /\ ret.op = "Dataset_getitem" /\ ret.first_exc # "None") =>
        ret.loads = <<ret.index, 0>>

\* C9 amended: at most two load attempts; a first success is returned without a second
\* attempt; a first failure at an index inside video_names is followed by exactly one
\* load_item(0), whose item (of video 0) or error is the outcome; a first failure at an
\* index outside video_names ends in the IndexError of the handler's own message, with
\* no second attempt; when the first attempt fails and video 0 is too short to sample,
\* the request ends in an error.
C9_Fallback ==
    (Returned /\ ret.op = "Dataset_getitem") =>
        /\ Len(ret.loads) \in {1, 2} /\ ret.loads[1] = ret.index
        /\ ret.first_exc = "None" =>
             /\ ret.loads = <<ret.index>> /\ ret.exc = "None"
             /\ \A k \in 1..Len(ret.frames) : ret.frames[k].video = video_names[ret.index + 1]
        /\ (ret.first_exc # "None" /\ InRange(ret.index)) =>
             /\ ret.loads = <<ret.index, 0>>
             /\ \A k \in 1..Len(ret.frames) : ret.frames[k].video = video_names[1]
        /\ (ret.first_exc # "None" /\ ~InRange(ret.index)) =>
             ret.loads = <<ret.index>> /\ ret.exc = "IndexError"
        /\ (ret.first_exc # "None" /\ sample_length > video_dict[video_names[1]]) =>
             ret.exc # "None"

\* the request for video 1 failed and the item of video 0 came back
C9_Witness ==
    /\ Returned /\ ret.op = "Dataset_getitem" /\ ret.index = 1
    /\ ret.first_exc # "None" /\ ret.loads = <<1, 0>> /\ ret.exc = "None"
    /\ Len(ret.frames) > 0 /\ ret.frames[1].video = "v0"

\* C10: in AVEDataset.__getitem__ no generated moving-shape mask reaches the result:
\* every returned mask is the one mask image loaded from the mask directory.
C10_AveSingleMask ==
    (Returned /\ ret.op = "AVE_getitem" /\ ret.sampled) =>
        /\ \A t \in 1..Len(ret.all_masks) :
             ret.all_masks[t].kind = "file" /\ ret.all_masks[t] = ret.all_masks[1]
        /\ \A k \in 1..Len(ret.masks) :
             /\ ret.masks[k] = ret.all_masks[1]
             /\ \A t \in 1..Len(ret.generated) : ret.masks[k] # ret.generated[t]

\* two frames of a 3-frame video sampled, three moving masks generated and dropped
C10_Witness ==
    /\ Returned /\ ret.op = "AVE_getitem" /\ ret.exc = "None"
    /\ ret.ref_index = <<0, 2>> /\ Len(ret.generated) = 3
    /\ ret.masks[1] = ret.masks[2] /\ ret.masks[1].kind = "file"

====
